---- MODULE Spec2Model ----
(***************************************************************************)
(* Client-side trade simulation (component TradeSimulation).               *)
(*                                                                         *)
(* Units.  Money is counted in tenths of a USD and quantities in whole     *)
(* coins.  Every amount (price, trade value, balance, average price, cost  *)
(* basis, profit) is an exact rational kept as a mixed number w + n/d:     *)
(* the arithmetic is that of the real numbers, IEEE-754 rounding is not    *)
(* modelled.                                                               *)
(*                                                                         *)
(* The price table is restricted to three of its ten rows.                 *)
(*                                                                         *)
(* Spec is the component without time.  TimedSpec adds the clock read by   *)
(* generateOrderId and the timer of the processing delay.  WalletSpec is   *)
(* the component WalletBalance and TransactionsSpec the component          *)
(* RecentTransactions and ApiSpec the class ApiService.  Each               *)
(* specification leaves the variables of the others at their initial       *)
(* values.                                                                 *)
(***************************************************************************)
EXTENDS Integers, Sequences, FiniteSets, TLC

\* ------------------------------------------------------------------ bounds
\* Number of executeTrade invocations (filled or rejected) in one session.
MaxOrders == 3

\* Number of ApiService method calls in ApiSpec.
MaxApiCalls == 4

\* Number of transactions fetches started in TransactionsSpec.
MaxTransactionFetches == 3

\* Number of wallet fetches started in WalletSpec.
MaxWalletFetches == 3

\* Last tick of the clock of TimedSpec.
MaxClock == 9

\* Largest base price, in tenths of a USD, given to the slippage model besides
\* the rows of MOCK_PRICES.
MaxBasePrice == 20

\* ------------------------------------------------------- program constants
\* MOCK_PRICES, rows BTCUSDT (43250.50), BNBUSDT (315.20) and AVAXUSDT (38.90),
\* in tenths of a USD.
MOCK_PRICES == [BTCUSDT |-> 432505, BNBUSDT |-> 3152, AVAXUSDT |-> 389]

\* A pair offered by the Select that has no row in MOCK_PRICES.
tradingPairs_Unpriced == {"BTCUSDT", "BNBUSDT", "AVAXUSDT", "TRXUSDT"}

tradingPairs == {"BTCUSDT", "BNBUSDT", "AVAXUSDT"}

Sides == {"BUY", "SELL"}

\* Values of Math.random() in tenths: 0.0, 0.5 and 0.9 (Math.random() < 1).
Draws == {0, 5, 9}

\* Texts the quantity input can hold.
QtyInputs == {"", "abc", "0", "1", "258"}

\* ------------------------------------------------------ exact arithmetic
\* The operations are functions, applied to values: an argument is computed
\* once, however often the operation reads it.
GCDOf[a \in Nat, b \in Nat] == IF b = 0 THEN a ELSE GCDOf[b, a % b]

GCD(a, b) == GCDOf[a, b]

\* The rational w + n/d (d > 0) in normal form: 0 <= n < d, gcd(n, d) = 1.
RNormOf[w \in Int, n \in Int, d \in Nat] ==
    LET n2 == n % d
        g  == GCD(d, n2)
    IN  [w |-> w + (n \div d), n |-> n2 \div g, d |-> d \div g]

RNorm(w, n, d) == RNormOf[w, n, d]

RInt(k) == [w |-> k, n |-> 0, d |-> 1]

\* Result of a division by zero (JavaScript Infinity or NaN).
RNaN == [w |-> 0, n |-> 0, d |-> 0]

\* The records that stand for a number or NaN.
Rational == [w : Int, n : Nat, d : Nat]

RNegOf[x \in Rational] ==
    IF x.d = 0 THEN RNaN
    ELSE IF x.n = 0 THEN RInt(0 - x.w)
    ELSE [w |-> 0 - x.w - 1, n |-> x.d - x.n, d |-> x.d]

RNeg(x) == RNegOf[x]

RAddOf[x \in Rational, y \in Rational] ==
    IF x.d = 0 \/ y.d = 0 THEN RNaN
    ELSE LET l == (x.d \div GCD(x.d, y.d)) * y.d
         IN  RNorm(x.w + y.w, x.n * (l \div x.d) + y.n * (l \div y.d), l)

RAdd(x, y) == RAddOf[x, y]

RSub(x, y) == RAdd(x, RNeg(y))

RMulIntOf[k \in Int, x \in Rational] ==
    IF x.d = 0 THEN RNaN ELSE RNorm(k * x.w, k * x.n, x.d)

RMulInt(k, x) == RMulIntOf[k, x]

RDivIntOf[x \in Rational, t \in Int] ==
    IF x.d = 0 \/ t = 0 THEN RNaN
    ELSE IF t < 0 THEN RNeg(RNorm(x.w \div (0 - t), (x.w % (0 - t)) * x.d + x.n, x.d * (0 - t)))
    ELSE RNorm(x.w \div t, (x.w % t) * x.d + x.n, x.d * t)

RDivInt(x, t) == RDivIntOf[x, t]

\* x < y (false when either is NaN, as in JavaScript)
RLessOf[x \in Rational, y \in Rational] ==
    /\ x.d # 0
    /\ y.d # 0
    /\ \/ x.w < y.w
       \/ x.w = y.w /\ x.n * y.d < y.n * x.d

RLess(x, y) == RLessOf[x, y]

\* useState(10000): 10000 USD, in tenths of a USD.
InitialBalance == 100000

\* ----------------------------------------------------------------- state
VARIABLES
    symbol,      \* useState('BTCUSDT'): the selected trading pair
    side,        \* useState('BUY')
    quantity,    \* useState(''): text of the quantity input
    isLoading,   \* useState(false)
    lastTrade,   \* useState(null): the last Trade record
    portfolio,   \* useState({}): symbol -> reference of its Position object, 0 = no entry
    heap,        \* the Position objects, by reference (index)
    balance,     \* useState(10000)
    pending,     \* executeTrade invocations suspended at the await
    submitted,   \* number of executeTrade invocations so far
    lastOrder,   \* locals and outcome of the most recent invocation
    filled       \* every Trade record passed to setLastTrade, oldest first

tradeVars == <<symbol, side, quantity, isLoading, lastTrade, portfolio, heap,
               balance, pending, submitted, lastOrder, filled>>

VARIABLES
    now,         \* ticks of TickMs milliseconds since the component was mounted
    timers,      \* the setTimeout of line 104 of each suspended invocation
    orderIds     \* order_id of every Trade record, oldest first

clockVars == <<now, timers, orderIds>>

\* Component WalletBalance.
VARIABLES
    walletMounted,     \* the effect of lines 97-103 has run
    isLoadingBinance,  \* useState(false)
    walletStatus,      \* useState(null): "null", "connected", "disconnected" or "error"
    walletFetches,     \* fetchBinanceWallet invocations waiting at the await of line 63
    walletStarted,     \* number of fetchBinanceWallet invocations so far
    walletToasts       \* the toasts shown, oldest first, with the trigger of their fetch

walletVars == <<walletMounted, isLoadingBinance, walletStatus, walletFetches,
                walletStarted, walletToasts>>

\* Component RecentTransactions.
VARIABLES
    txMounted,      \* the effect of lines 85-91 has run
    txProps,        \* the props isLoading and transactions of the current render
    txFirstProps,   \* the props of the first render
    txIsLoading,    \* useState(false)
    transactions,   \* useState([]): "empty" or "some"
    txFetches,      \* fetchTransactions invocations waiting at the await of line 48
    txStarted,      \* number of fetchTransactions invocations so far
    txToasts        \* the toasts shown, oldest first, with the trigger of their fetch

txVars == <<txMounted, txProps, txFirstProps, txIsLoading, transactions, txFetches,
            txStarted, txToasts>>

\* Class ApiService and the localStorage key 'auth_token'.
VARIABLES
    apiConstructed, \* the constructor of lines 9-11 has run
    apiToken,       \* this.token: "null" or a token
    storedToken,    \* localStorage 'auth_token': "null" when the key is absent
    apiInFlight,    \* login and logout calls waiting for their response
    apiCalls,       \* number of method calls so far
    apiSent,        \* every request handed to fetch, oldest first
    loginSession,   \* access_token of the last completed login, "none" once a
                    \* logout has completed since
    credential      \* the token last given by storage, a login or setToken, "null"
                    \* once a logout has completed since

apiVars == <<apiConstructed, apiToken, storedToken, apiInFlight, apiCalls, apiSent,
             loginSession, credential>>

vars == <<tradeVars, clockVars, walletVars, txVars, apiVars>>

\* ------------------------------------------------------- pure functions
\* !quantity
IsEmptyText(q) == q = ""

\* isNaN(Number(quantity))
NumberIsNaN(q) == q = "abc"

\* Number(quantity) for the texts that are not NaN; Number('') is 0.
Number(q) ==
    CASE q = ""    -> 0
      [] q = "0"   -> 0
      [] q = "1"   -> 1
      [] q = "258" -> 258
      [] OTHER     -> 0

\* basePrice * (1 + (Math.random() - 0.5) * 0.01) with Math.random() = r/10:
\* slippage = (r - 5)/1000, price = basePrice * (1000 + r - 5)/1000.
calculateMarketSlippage_NoCentering(basePrice, r) == RNorm(0, basePrice * (1000 + r), 1000)

calculateMarketSlippage_Wide(basePrice, r) == RNorm(0, basePrice * (100 + (r - 5)), 100)

calculateMarketSlippage(basePrice, r) == RNorm(0, basePrice * (1000 + (r - 5)), 1000)

\* Lines 82-83: calculateMarketSlippage(MOCK_PRICES[symbol]); a symbol without
\* a row gives undefined, and undefined * (1 + slippage) is NaN.
executedPriceOf(sym, r) ==
    IF sym \in DOMAIN MOCK_PRICES THEN calculateMarketSlippage(MOCK_PRICES[sym], r)
    ELSE RNaN

\* portfolio[symbol]?.quantity || 0
currentHolding(pf, hp, sym) ==
    IF pf[sym] = 0 THEN 0
    ELSE IF hp[pf[sym]].quantity = 0 THEN 0 ELSE hp[pf[sym]].quantity

\* Lines 72-99 of executeTrade: the outcome of the checks made before the
\* order is processed, for the slippage draw r.
FieldsMissing(sym, q) == sym = "" \/ IsEmptyText(q)

QuantityInvalid_ZeroAllowed(q) == NumberIsNaN(q) \/ Number(q) < 0

QuantityInvalid(q) == NumberIsNaN(q) \/ Number(q) <= 0

FundsRejected_SideTypo(sd, tradeValue, bal) == sd = "Buy" /\ RLess(bal, tradeValue)

FundsRejected_Inverted(sd, tradeValue, bal) == sd = "BUY" /\ RLess(tradeValue, bal)

FundsRejected(sd, tradeValue, bal) == sd = "BUY" /\ RLess(bal, tradeValue)

HoldingsRejected_SideTypo(sd, tradeQuantity, holding) == sd = "Sell" /\ tradeQuantity > holding

HoldingsRejected(sd, tradeQuantity, holding) == sd = "SELL" /\ tradeQuantity > holding

Validate(sym, sd, q, bal, pf, hp, r) ==
    IF FieldsMissing(sym, q) THEN "MISSING_FIELD"
    ELSE IF QuantityInvalid(q) THEN "INVALID_QUANTITY"
    ELSE LET executedPrice == executedPriceOf(sym, r)
             tradeQuantity == Number(q)
             tradeValue    == RMulInt(tradeQuantity, executedPrice)
         IN  IF FundsRejected(sd, tradeValue, bal) THEN "INSUFFICIENT_FUNDS"
             ELSE IF HoldingsRejected(sd, tradeQuantity, currentHolding(pf, hp, sym))
                  THEN "INSUFFICIENT_HOLDINGS"
             ELSE "OK"

\* The position validation read for the symbol (quantity 0: no entry).
NoPosition == [quantity |-> 0, average_price |-> RInt(0), total_value |-> RInt(0)]

PositionOf(pf, hp, sym) == IF pf[sym] = 0 THEN NoPosition ELSE hp[pf[sym]]

\* The values executeTrade holds across the await: its render's state
\* (symbol, side, quantity, portfolio, balance) and its locals.
Closure(inv, r) ==
    LET executedPrice == executedPriceOf(symbol, r)
        tradeQuantity == Number(quantity)
    IN  [inv           |-> inv,
         symbol        |-> symbol,
         side          |-> side,
         quantity      |-> quantity,
         executedPrice |-> executedPrice,
         tradeQuantity |-> tradeQuantity,
         tradeValue    |-> RMulInt(tradeQuantity, executedPrice),
         portfolio     |-> portfolio,
         balance       |-> balance,
         seen          |-> PositionOf(portfolio, heap, symbol)]

NewBalance_BuyDebitsTwice(p) ==
    IF p.side = "BUY" THEN RSub(RSub(p.balance, p.tradeValue), p.tradeValue)
    ELSE RAdd(p.balance, p.tradeValue)

NewBalance_BuyReferenceValue(p) ==
    IF p.side = "BUY"
    THEN RSub(p.balance, RMulInt(p.tradeQuantity, RInt(MOCK_PRICES[p.symbol])))
    ELSE RAdd(p.balance, p.tradeValue)

NewBalance_SellNotCredited(p) ==
    IF p.side = "BUY" THEN RSub(p.balance, p.tradeValue) ELSE p.balance

\* Lines 109, 112, 129.
NewBalance(p) ==
    IF p.side = "BUY" THEN RSub(p.balance, p.tradeValue) ELSE RAdd(p.balance, p.tradeValue)

BuyPosition_LastPrice(p, hp) ==
    LET id == p.portfolio[p.symbol]
    IN  IF id # 0
        THEN LET totalQuantity == hp[id].quantity + p.tradeQuantity
                 totalValue    == RAdd(hp[id].total_value, p.tradeValue)
             IN  [quantity      |-> totalQuantity,
                  average_price |-> p.executedPrice,
                  total_value   |-> totalValue]
        ELSE [quantity      |-> p.tradeQuantity,
              average_price |-> p.executedPrice,
              total_value   |-> p.tradeValue]

\* Lines 113-127: the Position object a BUY creates.
BuyPosition(p, hp) ==
    LET id == p.portfolio[p.symbol]
    IN  IF id # 0
        THEN LET totalQuantity == hp[id].quantity + p.tradeQuantity
                 totalValue    == RAdd(hp[id].total_value, p.tradeValue)
             IN  [quantity      |-> totalQuantity,
                  average_price |-> RDivInt(totalValue, totalQuantity),
                  total_value   |-> totalValue]
        ELSE [quantity      |-> p.tradeQuantity,
              average_price |-> p.executedPrice,
              total_value   |-> p.tradeValue]

SellPosition_Reaverage(p, hp) ==
    LET old  == hp[p.portfolio[p.symbol]]
        newq == old.quantity - p.tradeQuantity
        rest == RSub(old.total_value, p.tradeValue)
    IN  [quantity      |-> newq,
         average_price |-> RDivInt(rest, newq),
         total_value   |-> rest]

SellPosition_AddsQuantity(p, hp) ==
    LET old  == hp[p.portfolio[p.symbol]]
        newq == old.quantity + p.tradeQuantity
    IN  [quantity      |-> newq,
         average_price |-> old.average_price,
         total_value   |-> RMulInt(newq, old.average_price)]

\* Lines 131-132: the Position object of a SELL, updated in place.
SellPosition(p, hp) ==
    LET old  == hp[p.portfolio[p.symbol]]
        newq == old.quantity - p.tradeQuantity
    IN  [quantity      |-> newq,
         average_price |-> old.average_price,
         total_value   |-> RMulInt(newq, old.average_price)]

\* The objects after lines 108-138.  { ...portfolio } copies the references,
\* not the objects: a BUY allocates a new object, a SELL writes into the
\* object the previous portfolio refers to.
NewHeap(p, hp) ==
    IF p.side = "BUY" THEN Append(hp, BuyPosition(p, hp))
    ELSE IF p.portfolio[p.symbol] # 0
         THEN [hp EXCEPT ![p.portfolio[p.symbol]] = SellPosition(p, hp)]
         ELSE hp

NewPortfolio_DropOthers(p, hp) ==
    IF p.side = "BUY"
    THEN [s \in DOMAIN p.portfolio |-> IF s = p.symbol THEN Len(hp) + 1 ELSE 0]
    ELSE IF p.portfolio[p.symbol] # 0 /\ SellPosition(p, hp).quantity <= 0
         THEN [p.portfolio EXCEPT ![p.symbol] = 0]
         ELSE p.portfolio

NewPortfolio_KeepZero(p, hp) ==
    IF p.side = "BUY" THEN [p.portfolio EXCEPT ![p.symbol] = Len(hp) + 1]
    ELSE IF p.portfolio[p.symbol] # 0 /\ SellPosition(p, hp).quantity < 0
         THEN [p.portfolio EXCEPT ![p.symbol] = 0]
         ELSE p.portfolio

\* newPortfolio after lines 108-138.
NewPortfolio(p, hp) ==
    IF p.side = "BUY" THEN [p.portfolio EXCEPT ![p.symbol] = Len(hp) + 1]
    ELSE IF p.portfolio[p.symbol] # 0 /\ SellPosition(p, hp).quantity <= 0
         THEN [p.portfolio EXCEPT ![p.symbol] = 0]
         ELSE p.portfolio

ProfitLoss_AfterDelete(p, hp) ==
    IF p.side = "SELL" /\ NewPortfolio(p, hp)[p.symbol] # 0
    THEN [defined |-> TRUE,
          val |-> RMulInt(p.tradeQuantity,
                          RSub(p.executedPrice,
                               NewHeap(p, hp)[p.portfolio[p.symbol]].average_price))]
    ELSE [defined |-> FALSE, val |-> RInt(0)]

\* Lines 150-152, evaluated after the ledger update.
ProfitLoss(p, hp) ==
    IF p.side = "SELL" /\ p.portfolio[p.symbol] # 0
    THEN [defined |-> TRUE,
          val |-> RMulInt(p.tradeQuantity,
                          RSub(p.executedPrice,
                               NewHeap(p, hp)[p.portfolio[p.symbol]].average_price))]
    ELSE [defined |-> FALSE, val |-> RInt(0)]

MakeTrade_LiveForm(p, hp) ==
    [status         |-> "FILLED",
     symbol         |-> symbol,
     side           |-> side,
     quantity       |-> p.quantity,
     executed_price |-> p.executedPrice,
     profit_loss    |-> ProfitLoss(p, hp)]

MakeTrade_ReferencePrice(p, hp) ==
    [status         |-> "FILLED",
     symbol         |-> p.symbol,
     side           |-> p.side,
     quantity       |-> p.quantity,
     executed_price |-> RInt(MOCK_PRICES[p.symbol]),
     profit_loss    |-> ProfitLoss(p, hp)]

\* Lines 140-153 (order_id, price text, message and timestamp left out).
MakeTrade(p, hp) ==
    [status         |-> "FILLED",
     symbol         |-> p.symbol,
     side           |-> p.side,
     quantity       |-> p.quantity,
     executed_price |-> p.executedPrice,
     profit_loss    |-> ProfitLoss(p, hp)]

NoTrade ==
    [status |-> "NONE", symbol |-> "", side |-> "", quantity |-> "",
     executed_price |-> RInt(0), profit_loss |-> [defined |-> FALSE, val |-> RInt(0)]]

NoOrder ==
    [inv |-> 0, symbol |-> "", side |-> "", quantity |-> "", tradeQuantity |-> 0,
     executedPrice |-> RInt(0), tradeValue |-> RInt(0), verdict |-> "NONE"]

ActionEnabled_Always(loading) == TRUE

\* The Execute Trade button is disabled while isLoading (line 332).
ActionEnabled(loading) == ~loading

LoadingAfterSubmit_Forgot(v, loading) == loading

\* setIsLoading(true) once every check has passed (line 101).
LoadingAfterSubmit(v, loading) == IF v = "OK" THEN TRUE ELSE loading

LedgerAfterSubmit_DebitFirst(v, c) ==
    /\ balance' = (IF v = "INSUFFICIENT_FUNDS" THEN NewBalance(c) ELSE balance)
    /\ UNCHANGED <<portfolio, heap>>

\* Lines 71-104 call neither setPortfolio nor setBalance and write no Position.
LedgerAfterSubmit(v, c) == UNCHANGED <<portfolio, heap, balance>>

PendingAfterSubmit_NoReturn(v, c) ==
    IF v \in {"OK", "INSUFFICIENT_HOLDINGS"} THEN pending \cup {c} ELSE pending

\* Each failed check returns (lines 74, 79, 90, 97); only an order that passed
\* them all reaches the await of line 104.
PendingAfterSubmit(v, c) == IF v = "OK" THEN pending \cup {c} ELSE pending

\* ---------------------------------------------------------------- actions
\* The session lasts until MaxOrders invocations have been made and handled.
SessionOpen == submitted < MaxOrders \/ pending # {}

Init ==
    /\ symbol = "BTCUSDT"
    /\ side = "BUY"
    /\ quantity = ""
    /\ isLoading = FALSE
    /\ lastTrade = NoTrade
    /\ portfolio = [s \in tradingPairs |-> 0]
    /\ heap = << >>
    /\ balance = RInt(InitialBalance)
    /\ pending = {}
    /\ submitted = 0
    /\ lastOrder = NoOrder
    /\ filled = << >>
    /\ now = 0
    /\ timers = {}
    /\ orderIds = << >>
    /\ walletMounted = FALSE
    /\ isLoadingBinance = FALSE
    /\ walletStatus = "null"
    /\ walletFetches = {}
    /\ walletStarted = 0
    /\ walletToasts = << >>
    /\ txMounted = FALSE
    /\ txProps = [isLoading |-> "undefined", transactions |-> "undefined"]
    /\ txFirstProps = [isLoading |-> "undefined", transactions |-> "undefined"]
    /\ txIsLoading = FALSE
    /\ transactions = "empty"
    /\ txFetches = {}
    /\ txStarted = 0
    /\ txToasts = << >>
    /\ apiConstructed = FALSE
    /\ apiToken = "null"
    /\ storedToken = "null"
    /\ apiInFlight = {}
    /\ apiCalls = 0
    /\ apiSent = << >>
    /\ loginSession = "none"
    /\ credential = "null"

\* Select onValueChange={setSymbol}
SetSymbol(s) ==
    /\ SessionOpen
    /\ s # symbol
    /\ symbol' = s
    /\ UNCHANGED <<side, quantity, isLoading, lastTrade, portfolio, heap,
                   balance, pending, submitted, lastOrder, filled>>

\* Select onValueChange={(value) => setSide(value)}
SetSide(s) ==
    /\ SessionOpen
    /\ s # side
    /\ side' = s
    /\ UNCHANGED <<symbol, quantity, isLoading, lastTrade, portfolio, heap,
                   balance, pending, submitted, lastOrder, filled>>

\* Input onChange={(e) => setQuantity(e.target.value)}
SetQuantity(q) ==
    /\ SessionOpen
    /\ q # quantity
    /\ quantity' = q
    /\ UNCHANGED <<symbol, side, isLoading, lastTrade, portfolio, heap,
                   balance, pending, submitted, lastOrder, filled>>

\* executeTrade up to its await (lines 71-104), with Math.random() = r/10.
\* A rejected order returns here; an accepted one sets isLoading and waits.
ExecuteTrade(r) ==
    /\ ActionEnabled(isLoading)
    /\ submitted < MaxOrders
    /\ submitted' = submitted + 1
    /\ LET v == Validate(symbol, side, quantity, balance, portfolio, heap, r)
           c == Closure(submitted + 1, r)
           priced == v \notin {"MISSING_FIELD", "INVALID_QUANTITY"}
       IN  /\ lastOrder' = [inv           |-> submitted + 1,
                            symbol        |-> symbol,
                            side          |-> side,
                            quantity      |-> quantity,
                            tradeQuantity |-> IF priced THEN c.tradeQuantity ELSE 0,
                            executedPrice |-> IF priced THEN c.executedPrice ELSE RInt(0),
                            tradeValue    |-> IF priced THEN c.tradeValue ELSE RInt(0),
                            verdict       |-> v]
           /\ isLoading' = LoadingAfterSubmit(v, isLoading)
           /\ pending' = PendingAfterSubmit(v, c)
           /\ LedgerAfterSubmit(v, c)
    /\ UNCHANGED <<symbol, side, quantity, lastTrade, filled>>

Resume_Failed(p) ==
    /\ p \in pending
    /\ pending' = pending \ {p}
    /\ isLoading' = FALSE
    /\ UNCHANGED <<symbol, side, quantity, lastTrade, portfolio, heap, balance,
                   submitted, lastOrder, filled>>

\* executeTrade after its await (lines 106-165) for the suspended invocation p.
Resume(p) ==
    /\ p \in pending
    /\ pending' = pending \ {p}
    /\ lastTrade' = MakeTrade(p, heap)
    /\ filled' = Append(filled, MakeTrade(p, heap))
    /\ portfolio' = NewPortfolio(p, heap)
    /\ heap' = NewHeap(p, heap)
    /\ balance' = NewBalance(p)
    /\ quantity' = ""
    /\ isLoading' = FALSE
    /\ UNCHANGED <<symbol, side, submitted, lastOrder>>

\* The steps of the component; they leave auxVars as they are.
auxVars == <<clockVars, walletVars, txVars, apiVars>>

Next ==
    \/ (\E s \in tradingPairs : SetSymbol(s)) /\ UNCHANGED auxVars
    \/ (\E s \in Sides : SetSide(s)) /\ UNCHANGED auxVars
    \/ (\E q \in QtyInputs : SetQuantity(q)) /\ UNCHANGED auxVars
    \/ (\E r \in Draws : ExecuteTrade(r)) /\ UNCHANGED auxVars
    \/ (\E p \in pending : Resume(p)) /\ UNCHANGED auxVars

Spec == Init /\ [][Next]_vars

\* The timer of line 104 (1500 to 2500 ms) always fires: a suspended
\* invocation is eventually resumed.
FairSpec == Spec /\ WF_vars((\E p \in pending : Resume(p)) /\ UNCHANGED auxVars)

\* ------------------------------------------------------ the component in time
\* Milliseconds per tick, and Date.now() when the component was mounted (a
\* stand-in with a fixed number of digits; the real value has 13).
TickMs == 500

SessionStartMs == 1000000

DateNow == SessionStartMs + TickMs * now

\* 1500 + Math.random() * 1000 milliseconds, in ticks: 1500 and 2000.
TimerDelays == {3, 4}

\* Math.random().toString(36).substr(2, 5).toUpperCase(): at most five
\* characters, none when Math.random() returns 0.
RandomSuffixes == {<< >>, <<"4", "F", "Z", "Z", "Z">>}

Digit(k) ==
    CASE k = 0 -> "0" [] k = 1 -> "1" [] k = 2 -> "2" [] k = 3 -> "3" [] k = 4 -> "4"
      [] k = 5 -> "5" [] k = 6 -> "6" [] k = 7 -> "7" [] k = 8 -> "8" [] OTHER -> "9"

\* The decimal text of a natural number, as `${...}` writes it.
DecimalText[k \in Nat] ==
    IF k < 10 THEN <<Digit(k)>> ELSE Append(DecimalText[k \div 10], Digit(k % 10))

generateOrderId_NoTimestamp(ms, suffix) == <<"O", "R", "D">> \o suffix

\* `ORD${Date.now()}${suffix}` (line 62).
generateOrderId(ms, suffix) == <<"O", "R", "D">> \o DecimalText[ms] \o suffix

\* The quantity texts and the slippage draw of TimedSpec: one valid and one
\* invalid quantity, the middle draw.
TimedQtyInputs == {"1", "abc"}

TimedDraws == {5}

\* executeTrade up to its await, with the delay d of the timer it sets.
TimedExecuteTrade(r, d) ==
    /\ ExecuteTrade(r)
    /\ timers' = (IF lastOrder'.verdict = "OK"
                  THEN timers \cup {[inv |-> submitted + 1, due |-> now + d]}
                  ELSE timers)
    /\ UNCHANGED <<now, orderIds>>

\* The timer of invocation p has expired and its promise resolves.
TimedResume(p, suffix) ==
    /\ \E t \in timers :
          /\ t.inv = p.inv
          /\ t.due <= now
          /\ timers' = timers \ {t}
    /\ Resume(p)
    /\ orderIds' = Append(orderIds, generateOrderId(DateNow, suffix))
    /\ UNCHANGED now

Tick ==
    /\ now < MaxClock
    /\ SessionOpen
    /\ now' = now + 1
    /\ UNCHANGED <<tradeVars, timers, orderIds>>

timedFrozen == <<walletVars, txVars, apiVars>>

TimedNext ==
    \/ (\E s \in tradingPairs : SetSymbol(s)) /\ UNCHANGED <<clockVars, timedFrozen>>
    \/ (\E s \in Sides : SetSide(s)) /\ UNCHANGED <<clockVars, timedFrozen>>
    \/ (\E q \in TimedQtyInputs : SetQuantity(q)) /\ UNCHANGED <<clockVars, timedFrozen>>
    \/ (\E r \in TimedDraws : \E d \in TimerDelays : TimedExecuteTrade(r, d))
          /\ UNCHANGED timedFrozen
    \/ (\E p \in pending : \E suffix \in RandomSuffixes : TimedResume(p, suffix))
          /\ UNCHANGED timedFrozen
    \/ Tick /\ UNCHANGED timedFrozen

TimedSpec == Init /\ [][TimedNext]_vars

\* ------------------------------------------------ component WalletBalance
\* What Promise.all of getWalletBalance and getWalletStatus can settle as:
\* resolved with statusData.connected true or false, or rejected.
WalletOutcomes == {"connected", "disconnected", "rejected"}

\* The three callers of fetchBinanceWallet: the effect when it runs, the
\* interval it sets, and the refresh button.
WalletTriggers == {"mount", "timer", "manual"}

\* The fetchBinanceWallet of the first render, the one the effect of lines
\* 97-103 calls and hands to setInterval, closes over the isLoadingBinance of
\* that render: useState(false).
FirstRenderLoading == FALSE

\* A fetchBinanceWallet invocation: its trigger and the isLoadingBinance its
\* closure holds.
WalletFetch(trigger, loading) ==
    [id |-> walletStarted + 1, trigger |-> trigger, isLoadingBinance |-> loading]

\* if (!isLoadingBinance) of lines 73 and 87.
WalletToastShown(f) == ~f.isLoadingBinance

\* The toast of lines 74-78 and 88, if one is shown.
WalletToastsAfter(f, outcome) ==
    IF WalletToastShown(f)
    THEN Append(walletToasts,
                [trigger |-> f.trigger,
                 text    |-> CASE outcome = "connected"    -> "Wallet connected successfully"
                               [] outcome = "disconnected" -> "Wallet connection failed"
                               [] OTHER                    -> "Failed to fetch wallet data"])
    ELSE walletToasts

\* setWalletStatus of lines 69 and 81-85.
WalletStatusAfter(outcome) == IF outcome = "rejected" THEN "error" ELSE outcome

\* fetchBinanceWallet up to its await: setIsLoadingBinance(true) and the two
\* requests (lines 61-66).
StartWalletFetch(trigger, loading) ==
    /\ walletStarted < MaxWalletFetches
    /\ walletStarted' = walletStarted + 1
    /\ isLoadingBinance' = TRUE
    /\ walletFetches' = walletFetches \cup {WalletFetch(trigger, loading)}
    /\ UNCHANGED <<walletStatus, walletToasts>>

\* The effect of lines 97-103 after the first render.
WalletMount ==
    /\ ~walletMounted
    /\ walletMounted' = TRUE
    /\ StartWalletFetch("mount", FirstRenderLoading)

\* The interval of line 101 fires.
WalletTimer ==
    /\ walletMounted
    /\ UNCHANGED walletMounted
    /\ StartWalletFetch("timer", FirstRenderLoading)

\* A click on the refresh button (lines 211-219), enabled while
\* isLoadingBinance is false; it calls the fetchBinanceWallet of the
\* current render.
WalletManualRefresh ==
    /\ walletMounted
    /\ ~isLoadingBinance
    /\ UNCHANGED walletMounted
    /\ StartWalletFetch("manual", isLoadingBinance)

\* The requests of invocation f settle: lines 68-93.
WalletSettle(f, outcome) ==
    /\ f \in walletFetches
    /\ walletFetches' = walletFetches \ {f}
    /\ walletStatus' = WalletStatusAfter(outcome)
    /\ walletToasts' = WalletToastsAfter(f, outcome)
    /\ isLoadingBinance' = FALSE
    /\ UNCHANGED <<walletMounted, walletStarted>>

walletFrozen == <<tradeVars, clockVars, txVars, apiVars>>

WalletNext ==
    \/ WalletMount /\ UNCHANGED walletFrozen
    \/ WalletTimer /\ UNCHANGED walletFrozen
    \/ WalletManualRefresh /\ UNCHANGED walletFrozen
    \/ (\E f \in walletFetches : \E o \in WalletOutcomes : WalletSettle(f, o))
          /\ UNCHANGED walletFrozen

WalletSpec == Init /\ [][WalletNext]_vars

\* ------------------------------------------------------ helpers of the claims
\* Quantity stored for symbol s in the current ledger, 0 when it has no entry.
HeldQty(s) == IF portfolio[s] = 0 THEN 0 ELSE heap[portfolio[s]].quantity

\* A step that is one executeTrade invocation reaching a return or the await.
SubmitStep == submitted' = submitted + 1

\* The form holds an order that passes the field and quantity checks.
FormValid == ~FieldsMissing(symbol, quantity) /\ ~QuantityInvalid(quantity)

\* Executed notional of a Trade record.
Notional(t) == RMulInt(Number(t.quantity), t.executed_price)

\* Cash left from amount c after the Trade records of sequence ts.
RECURSIVE CashAfter(_, _)
CashAfter(c, ts) ==
    IF ts = << >> THEN c
    ELSE CashAfter(IF Head(ts).side = "BUY" THEN RSub(c, Notional(Head(ts)))
                                            ELSE RAdd(c, Notional(Head(ts))),
                   Tail(ts))

\* ------------------------------------------------------------------ claims
\* C1: in every reachable state the cash balance is a number >= 0; no BUY
\* drives it negative.
C1_CashNeverNegative == balance.d # 0 /\ balance.w >= 0

\* C1 witness: a BUY was filled that left less than 100 USD of cash.
C1_Witness ==
    /\ lastTrade.status = "FILLED"
    /\ lastTrade.side = "BUY"
    /\ balance.w < 1000

\* C2: every entry of the ledger has quantity > 0 and total_value equal to
\* quantity * average_price.
C2_PositionsWellFormed ==
    \A s \in tradingPairs :
        portfolio[s] # 0 =>
            LET pos == heap[portfolio[s]]
            IN  /\ pos.quantity > 0
                /\ pos.average_price.d # 0
                /\ pos.total_value = RMulInt(pos.quantity, pos.average_price)

\* C2 witness: a SELL left part of a position whose average price is the
\* re-averaged (non-integral) price of two BUYs.
C2_Witness ==
    /\ lastTrade.status = "FILLED"
    /\ lastTrade.side = "SELL"
    /\ portfolio[lastTrade.symbol] # 0
    /\ heap[portfolio[lastTrade.symbol]].average_price.n # 0
    /\ Len(filled) = 3

\* C3: an executeTrade invocation that rejects its order leaves the cash
\* balance, the ledger and every Position object as they were.
C3_RejectionChangesNothing ==
    [][(SubmitStep /\ lastOrder'.verdict # "OK")
         => (balance' = balance /\ portfolio' = portfolio /\ heap' = heap)]_vars

\* C3 witness: a BUY was rejected for funds while a position is held.
C3_Witness ==
    /\ lastOrder.verdict = "INSUFFICIENT_FUNDS"
    /\ \E s \in tradingPairs : portfolio[s] # 0
    /\ balance # RInt(InitialBalance)

\* C4: the cash balance is the seed minus the notionals of the filled BUYs
\* plus the notionals of the filled SELLs.
C4_CashConservation == balance = CashAfter(RInt(InitialBalance), filled)

\* C4 witness: a BUY and a SELL have both been filled.
C4_Witness ==
    /\ \E i \in 1..Len(filled) : filled[i].side = "BUY"
    /\ \E i \in 1..Len(filled) : filled[i].side = "SELL"
    /\ balance # RInt(InitialBalance)

\* C5: at most one executeTrade invocation is between its validation and its
\* commit, and an invocation starts only when none is.
C5_Serialized ==
    [][(SubmitStep => pending = {}) /\ Cardinality(pending') <= 1]_vars

\* C5 witness: an order is being processed while the form holds another
\* valid order and the session may still submit.
C5_Witness ==
    /\ Cardinality(pending) = 1
    /\ isLoading
    /\ FormValid
    /\ submitted < MaxOrders

\* C6: when an order's mutation is committed, the cash balance and the
\* Position of its symbol are the values its validation read; no other
\* commit came in between.
C6_ConsistentSnapshot ==
    [][\A p \in pending :
          p \notin pending' =>
              /\ p.balance = balance
              /\ p.portfolio[p.symbol] = portfolio[p.symbol]
              /\ p.seen = PositionOf(portfolio, heap, p.symbol)]_vars

\* C6 witness: two orders on one symbol were committed one after the other,
\* the second validated against the position the first one left.
C6_Witness ==
    /\ Len(filled) >= 2
    /\ filled[1].symbol = filled[2].symbol
    /\ pending = {}
    /\ ~isLoading

\* C7: a BUY is debited, recorded and entered in the ledger at the price its
\* funds check was made with (the price and notional of lastOrder, written
\* by the validating step); the price is not drawn again.
C7_SamePriceAtFill ==
    [][\A p \in pending :
          (p \notin pending' /\ p.side = "BUY") =>
              /\ lastOrder.inv = p.inv
              /\ lastOrder.verdict = "OK"
              /\ ~RLess(balance, lastOrder.tradeValue)
              /\ lastOrder.tradeValue = RMulInt(lastOrder.tradeQuantity, lastOrder.executedPrice)
              /\ balance' = RSub(balance, lastOrder.tradeValue)
              /\ lastTrade'.executed_price = lastOrder.executedPrice
              /\ portfolio'[p.symbol] # 0
              /\ heap'[portfolio'[p.symbol]].total_value
                     = RAdd(PositionOf(portfolio, heap, p.symbol).total_value,
                            lastOrder.tradeValue)
              /\ (portfolio[p.symbol] = 0 =>
                     heap'[portfolio'[p.symbol]].average_price = lastOrder.executedPrice)]_vars

\* C7 witness: a BUY of 258 coins was filled below the reference price; at
\* the reference price its funds check would have failed.
C7_Witness ==
    /\ lastTrade.status = "FILLED"
    /\ lastTrade.side = "BUY"
    /\ lastTrade.quantity = "258"
    /\ RLess(lastTrade.executed_price, RInt(MOCK_PRICES[lastTrade.symbol]))
    /\ RLess(RAdd(balance, Notional(lastTrade)),
             RMulInt(258, RInt(MOCK_PRICES[lastTrade.symbol])))

\* Verdict of the checks of the order now in the form, for the draw r.
VerdictNow(r) == Validate(symbol, side, quantity, balance, portfolio, heap, r)

\* The cash balance lies in the slippage band of the order in the form:
\* 0.995 * quantity * reference price <= balance < 1.005 * quantity * reference price.
InSlippageBand ==
    LET q   == Number(quantity)
        ref == MOCK_PRICES[symbol]
    IN  /\ ~RLess(balance, RMulInt(q, RNorm(0, ref * 995, 1000)))
        /\ RLess(balance, RMulInt(q, RNorm(0, ref * 1005, 1000)))

C9_OversellRejected ==
    [][(SubmitStep /\ side = "SELL" /\ FormValid /\ Number(quantity) > HeldQty(symbol))
         => /\ lastOrder'.verdict = "INSUFFICIENT_HOLDINGS"
            /\ UNCHANGED <<balance, portfolio, heap, pending, lastTrade, filled, isLoading>>]_vars

\* C9 witness: a SELL of 258 was rejected while 1 coin of the symbol is held.
C9_Witness ==
    /\ lastOrder.verdict = "INSUFFICIENT_HOLDINGS"
    /\ lastOrder.quantity = "258"
    /\ HeldQty(lastOrder.symbol) = 1

\* C10: a valid BUY is rejected for insufficient funds exactly when quantity *
\* executed price of this order exceeds the cash balance, and is accepted
\* otherwise; the executed price is the slipped reference price of one draw.
C10_FundsCheckExact ==
    [][(SubmitStep /\ side = "BUY" /\ FormValid)
         => /\ \E r \in Draws :
                  lastOrder'.executedPrice = calculateMarketSlippage(MOCK_PRICES[symbol], r)
            /\ lastOrder'.tradeValue = RMulInt(Number(quantity), lastOrder'.executedPrice)
            /\ (lastOrder'.verdict = "INSUFFICIENT_FUNDS") = RLess(balance, lastOrder'.tradeValue)
            /\ lastOrder'.verdict \in {"INSUFFICIENT_FUNDS", "OK"}]_vars

\* C10 witness: a BUY was rejected for funds at its drawn price although the
\* balance covers the same order at the lowest price.
C10_Witness ==
    /\ lastOrder.side = "BUY"
    /\ lastOrder.verdict = "INSUFFICIENT_FUNDS"
    /\ ~RLess(balance, RMulInt(lastOrder.tradeQuantity,
                               calculateMarketSlippage(MOCK_PRICES[lastOrder.symbol], 0)))

\* The quantity text q is non-numeric or denotes a number <= 0.
BadQuantity(q) == NumberIsNaN(q) \/ Number(q) <= 0

\* Every Trade record of sequence ts has a numeric quantity > 0.
FilledQuantitiesPositive(ts) ==
    \A i \in 1..Len(ts) : ~NumberIsNaN(ts[i].quantity) /\ Number(ts[i].quantity) > 0

FillStep == Len(filled') = Len(filled) + 1

\* C13: the step that fills a BUY leaves the cash balance equal to the cash
\* balance before that step minus quantity * executed_price of the Trade
\* record it produces.
C13_BuyDebitsNotional ==
    [][(FillStep /\ lastTrade'.side = "BUY")
          => /\ balance'.d # 0
             /\ balance' = RSub(balance, Notional(lastTrade'))]_vars

\* C13 witness: a BUY filled at a price other than the reference price, after
\* an earlier fill had already moved the cash balance.
C13_Witness ==
    /\ Len(filled) >= 2
    /\ lastTrade.side = "BUY"
    /\ lastTrade.executed_price # RInt(MOCK_PRICES[lastTrade.symbol])
    /\ balance = CashAfter(RInt(InitialBalance), filled)
    /\ RLess(balance, RInt(InitialBalance))

\* Every tenth Math.random() can return in [0, 1), and the base prices tried.
RandomTenths == 0..9

BasePrices == (1..MaxBasePrice) \cup {MOCK_PRICES[s] : s \in DOMAIN MOCK_PRICES}

\* price is a number inside [basePrice * 0.995, basePrice * 1.005] and > 0.
InSlippageInterval(price, basePrice) ==
    /\ price.d # 0
    /\ RLess(RInt(0), price)
    /\ ~RLess(price, RNorm(0, basePrice * 995, 1000))
    /\ ~RLess(RNorm(0, basePrice * 1005, 1000), price)

\* calculateMarketSlippage over every base price and draw tried.
SlippageAlwaysInInterval ==
    \A b \in BasePrices : \A r \in RandomTenths :
        InSlippageInterval(calculateMarketSlippage(b, r), b)

\* C14: for every positive base price and every draw, calculateMarketSlippage
\* returns a strictly positive price inside [basePrice * 0.995,
\* basePrice * 1.005]; so does every price held by an order that was priced, by
\* a suspended invocation and by a Trade record.  (It is an operator of its
\* arguments only: it reads and writes no state.)
C14_SlippageInterval ==
    /\ SlippageAlwaysInInterval
    /\ lastOrder.verdict \in {"OK", "INSUFFICIENT_FUNDS", "INSUFFICIENT_HOLDINGS"}
           => InSlippageInterval(lastOrder.executedPrice, MOCK_PRICES[lastOrder.symbol])
    /\ \A p \in pending : InSlippageInterval(p.executedPrice, MOCK_PRICES[p.symbol])
    /\ \A i \in 1..Len(filled) :
           InSlippageInterval(filled[i].executed_price, MOCK_PRICES[filled[i].symbol])

\* C14 witness: an order was filled at exactly basePrice * 0.995, the price of
\* the lowest draw.
C14_Witness ==
    /\ lastTrade.status = "FILLED"
    /\ lastTrade.executed_price = RNorm(0, MOCK_PRICES[lastTrade.symbol] * 995, 1000)
    /\ lastOrder.executedPrice = lastTrade.executed_price

\* C15: the step that fills a SELL of q on a position holding Q has Q >= q,
\* adds q * executed_price to the cash balance, leaves the position with
\* quantity Q - q when that is positive and leaves the symbol without an entry
\* when it is zero.
C15_SellCreditsAndReduces ==
    [][(FillStep /\ lastTrade'.side = "SELL")
          => /\ HeldQty(lastTrade'.symbol) >= Number(lastTrade'.quantity)
             /\ balance' = RAdd(balance, Notional(lastTrade'))
             /\ HeldQty(lastTrade'.symbol) > Number(lastTrade'.quantity)
                   => /\ portfolio'[lastTrade'.symbol] # 0
                      /\ heap'[portfolio'[lastTrade'.symbol]].quantity
                            = HeldQty(lastTrade'.symbol) - Number(lastTrade'.quantity)
             /\ HeldQty(lastTrade'.symbol) = Number(lastTrade'.quantity)
                   => portfolio'[lastTrade'.symbol] = 0]_vars

\* C15 witness: a SELL of the whole position was filled at a price other than
\* the price it was bought at, so the entry is gone and the cash differs from
\* the seed.
C15_Witness ==
    /\ Len(filled) = 2
    /\ filled[1].side = "BUY"
    /\ lastTrade.side = "SELL"
    /\ lastTrade.symbol = filled[1].symbol
    /\ lastTrade.quantity = filled[1].quantity
    /\ portfolio[lastTrade.symbol] = 0
    /\ balance # RInt(InitialBalance)

\* C16: the step that fills a SELL and leaves the symbol with a position keeps
\* that position's average_price, lowers its quantity by the sold quantity and
\* sets its total_value to remaining quantity * average_price.
C16_SellKeepsAverage ==
    [][(FillStep /\ lastTrade'.side = "SELL" /\ portfolio'[lastTrade'.symbol] # 0)
          => /\ portfolio[lastTrade'.symbol] # 0
             /\ LET old == heap[portfolio[lastTrade'.symbol]]
                    new == heap'[portfolio'[lastTrade'.symbol]]
                IN  /\ new.average_price = old.average_price
                    /\ new.quantity = old.quantity - Number(lastTrade'.quantity)
                    /\ new.quantity < old.quantity
                    /\ new.total_value = RMulInt(new.quantity, old.average_price)]_vars

\* C16 witness: part of a position was sold at a price other than its average
\* price.
C16_Witness ==
    /\ lastTrade.status = "FILLED"
    /\ lastTrade.side = "SELL"
    /\ portfolio[lastTrade.symbol] # 0
    /\ heap[portfolio[lastTrade.symbol]].quantity > 0
    /\ heap[portfolio[lastTrade.symbol]].average_price # lastTrade.executed_price

\* The Trade records of symbol s in ts, their total quantity and notional.
FillsOf(ts, s) == SelectSeq(ts, LAMBDA t : t.symbol = s)

RECURSIVE SumQuantity(_)
SumQuantity(ts) ==
    IF ts = << >> THEN 0 ELSE Number(Head(ts).quantity) + SumQuantity(Tail(ts))

RECURSIVE SumNotional(_)
SumNotional(ts) ==
    IF ts = << >> THEN RInt(0) ELSE RAdd(Notional(Head(ts)), SumNotional(Tail(ts)))

\* For every symbol whose Trade records in ts are BUYs only: its position in
\* ledger pf over objects hp holds their total quantity, quantity *
\* average_price is their total notional, and average_price is neither below
\* every fill price nor above every fill price.
BuysOnlyAveraged(pf, hp, ts) ==
    \A s \in tradingPairs :
        LET fs == FillsOf(ts, s)
        IN  (fs # << >> /\ \A i \in 1..Len(fs) : fs[i].side = "BUY")
               => /\ pf[s] # 0
                  /\ hp[pf[s]].quantity = SumQuantity(fs)
                  /\ RMulInt(hp[pf[s]].quantity, hp[pf[s]].average_price) = SumNotional(fs)
                  /\ \E i \in 1..Len(fs) : ~RLess(hp[pf[s]].average_price, fs[i].executed_price)
                  /\ \E i \in 1..Len(fs) : ~RLess(fs[i].executed_price, hp[pf[s]].average_price)

\* C17: the step that fills a BUY on a symbol without a position creates one
\* with the order quantity, the executed price as average_price and the
\* notional as total_value; on a symbol with a position it adds the order
\* quantity and the notional and sets average_price to new total_value / new
\* quantity.  After it, every symbol that was only ever bought has the
\* quantity-weighted average of its fill prices as average_price, between the
\* lowest and the highest of them.
C17_BuyAverages ==
    [][(FillStep /\ lastTrade'.side = "BUY")
          => /\ portfolio'[lastTrade'.symbol] # 0
             /\ LET new == heap'[portfolio'[lastTrade'.symbol]]
                    q   == Number(lastTrade'.quantity)
                IN  IF portfolio[lastTrade'.symbol] = 0
                    THEN /\ new.quantity = q
                         /\ new.average_price = lastTrade'.executed_price
                         /\ new.total_value = Notional(lastTrade')
                    ELSE LET old == heap[portfolio[lastTrade'.symbol]]
                         IN  /\ new.quantity = old.quantity + q
                             /\ new.total_value = RAdd(old.total_value, Notional(lastTrade'))
                             /\ new.average_price = RDivInt(new.total_value, new.quantity)
             /\ BuysOnlyAveraged(portfolio', heap', filled')]_vars

\* C17 witness: two BUYs of one symbol were filled at different prices and the
\* position's average_price is neither of the two.
C17_Witness ==
    /\ Len(filled) = 2
    /\ filled[1].side = "BUY"
    /\ filled[2].side = "BUY"
    /\ filled[1].symbol = filled[2].symbol
    /\ filled[1].executed_price # filled[2].executed_price
    /\ portfolio[filled[2].symbol] # 0
    /\ heap[portfolio[filled[2].symbol]].average_price
          \notin {filled[1].executed_price, filled[2].executed_price}

\* C18: the Trade record of a filled SELL has a profit_loss, equal to sold
\* quantity * (executed_price - average_price the position had before the
\* step), also when the step removes the position; the record of a filled BUY
\* has none; no recorded SELL is without one.
C18_RealizedProfitLoss ==
    [][FillStep
          => /\ IF lastTrade'.side = "SELL"
                THEN /\ portfolio[lastTrade'.symbol] # 0
                     /\ lastTrade'.profit_loss.defined
                     /\ lastTrade'.profit_loss.val
                           = RMulInt(Number(lastTrade'.quantity),
                                     RSub(lastTrade'.executed_price,
                                          heap[portfolio[lastTrade'.symbol]].average_price))
                ELSE ~lastTrade'.profit_loss.defined
             /\ \A i \in 1..Len(filled') :
                    filled'[i].profit_loss.defined <=> filled'[i].side = "SELL"]_vars

\* C18 witness: a SELL closed a whole position with a realized loss or gain
\* that is not zero.
C18_Witness ==
    /\ lastTrade.status = "FILLED"
    /\ lastTrade.side = "SELL"
    /\ portfolio[lastTrade.symbol] = 0
    /\ lastTrade.profit_loss.defined
    /\ lastTrade.profit_loss.val # RInt(0)

\* The verdicts with which executeTrade returns before processing an order.
Rejections ==
    {"MISSING_FIELD", "INVALID_QUANTITY", "INSUFFICIENT_FUNDS", "INSUFFICIENT_HOLDINGS"}

\* Quantity stored for symbol s in ledger pf over objects hp.
HeldQtyIn(pf, hp, s) == IF pf[s] = 0 THEN 0 ELSE hp[pf[s]].quantity

\* C19: an executeTrade invocation either rejects its order (nothing is
\* suspended or recorded) or accepts it (one invocation is suspended); a fill
\* completes the one accepted invocation, was accepted and not rejected,
\* records exactly one Trade with status FILLED and moves the position by the
\* whole order quantity; Trade records come from fills only and every one has
\* status FILLED; fills and suspended invocations never outnumber submissions.
C19_FilledOrRejected ==
    [][/\ SubmitStep
            => \/ /\ lastOrder'.verdict \in Rejections
                  /\ UNCHANGED <<pending, filled, lastTrade, portfolio, heap, balance>>
               \/ /\ lastOrder'.verdict = "OK"
                  /\ Cardinality(pending') = Cardinality(pending) + 1
                  /\ UNCHANGED <<filled, lastTrade, portfolio, heap, balance>>
       /\ FillStep
            => /\ \E p \in pending :
                    /\ pending' = pending \ {p}
                    /\ p.inv = lastOrder.inv
                    /\ lastOrder.verdict = "OK"
                    /\ lastTrade'.quantity = p.quantity
                    /\ lastTrade'.symbol = p.symbol
                    /\ lastTrade'.side = p.side
               /\ filled' = Append(filled, lastTrade')
               /\ HeldQtyIn(portfolio', heap', lastTrade'.symbol)
                     = HeldQty(lastTrade'.symbol)
                         + (IF lastTrade'.side = "BUY" THEN Number(lastTrade'.quantity)
                            ELSE 0 - Number(lastTrade'.quantity))
       /\ (filled' # filled \/ lastTrade' # lastTrade \/ Cardinality(pending') < Cardinality(pending))
            => FillStep
       /\ \A i \in 1..Len(filled') : filled'[i].status = "FILLED"
       /\ lastTrade'.status \in {"NONE", "FILLED"}
       /\ Len(filled') + Cardinality(pending') <= submitted']_vars

\* C19 witness: three orders were submitted; two were filled, the third was
\* rejected, and nothing is suspended.
C19_Witness ==
    /\ submitted = 3
    /\ Len(filled) = 2
    /\ pending = {}
    /\ ~isLoading
    /\ lastOrder.verdict \in Rejections
    /\ lastOrder.inv = 3

\* The most recent order was accepted and has completed: its Trade record is
\* the last one, nothing is suspended and isLoading is false again.
LastOrderFilled ==
    /\ lastOrder.verdict = "OK"
    /\ pending = {}
    /\ ~isLoading
    /\ filled # << >>
    /\ lastTrade = filled[Len(filled)]
    /\ lastTrade.status = "FILLED"
    /\ lastTrade.symbol = lastOrder.symbol
    /\ lastTrade.side = lastOrder.side
    /\ lastTrade.quantity = lastOrder.quantity
    /\ lastTrade.executed_price = lastOrder.executedPrice

\* C20: whenever an order has passed validation and its invocation waits at
\* the await, eventually that order is filled: nothing is suspended, its Trade
\* record, ledger and cash update are committed and isLoading is false.
C20_AcceptedEventuallyFilled == (pending # {}) ~> LastOrderFilled

\* C20 witness: the second accepted order has completed and changed the cash.
C20_Witness ==
    /\ LastOrderFilled
    /\ Len(filled) = 2
    /\ balance = CashAfter(RInt(InitialBalance), filled)
    /\ balance # RInt(InitialBalance)

\* C21: every Trade record has an order_id and no two Trade records of the
\* session have the same one.
C21_OrderIdsUnique ==
    /\ Len(orderIds) = Len(filled)
    /\ \A i, j \in 1..Len(orderIds) : i # j => orderIds[i] # orderIds[j]

\* C21 witness: two orders were filled whose ids end in the same random
\* suffix, so that they differ in the Date.now() part only.
C21_Witness ==
    /\ Len(orderIds) >= 2
    /\ Len(orderIds[1]) = Len(orderIds[2])
    /\ Len(orderIds[1]) > 10
    /\ SubSeq(orderIds[1], 11, Len(orderIds[1])) = SubSeq(orderIds[2], 11, Len(orderIds[2]))

\* The symbols that have an entry in ledger pf.
HeldSymbols(pf) == {s \in DOMAIN pf : pf[s] # 0}

\* C22: until the first fill the cash is 10000 USD and the ledger is empty;
\* the first fill, a BUY of q at reference price p, leaves exactly one
\* position, of that symbol with quantity q, and cash inside
\* [10000 - q * p * 1.005, 10000 - q * p * 0.995].
C22_FirstBuy ==
    [][/\ Len(filled) = 0 => (balance = RInt(InitialBalance) /\ HeldSymbols(portfolio) = {})
       /\ (FillStep /\ Len(filled) = 0)
            => LET s  == lastTrade'.symbol
                   qp == Number(lastTrade'.quantity) * MOCK_PRICES[lastTrade'.symbol]
               IN  /\ lastTrade'.side = "BUY"
                   /\ HeldSymbols(portfolio') = {s}
                   /\ heap'[portfolio'[s]].quantity = Number(lastTrade'.quantity)
                   /\ ~RLess(balance', RSub(RInt(InitialBalance), RNorm(0, qp * 1005, 1000)))
                   /\ ~RLess(RSub(RInt(InitialBalance), RNorm(0, qp * 995, 1000)), balance')]_vars

\* C22 witness: the first order filled was a BUY at the lowest price of the
\* slippage interval, so the cash is the upper end of the claimed interval.
C22_Witness ==
    /\ Len(filled) = 1
    /\ lastTrade.side = "BUY"
    /\ HeldSymbols(portfolio) = {lastTrade.symbol}
    /\ balance = RSub(RInt(InitialBalance),
                      RNorm(0, Number(lastTrade.quantity) * MOCK_PRICES[lastTrade.symbol] * 995, 1000))

\* C23: every toast of WalletBalance belongs to a fetch started by the
\* refresh button; a fetch started by the effect or by the interval shows
\* none.
C23_ToastOnlyManual ==
    \A i \in 1..Len(walletToasts) : walletToasts[i].trigger = "manual"

\* --------------------------------------------- component RecentTransactions
\* The props isLoading (absent, false or true) and transactions (absent, an
\* empty array or a non-empty one) a parent can pass.
TxPropValues ==
    [isLoading : {"undefined", "false", "true"}, transactions : {"undefined", "empty", "some"}]

\* What Promise.all of getUserTransactions and getTransactionSummary can
\* settle as: resolved with no or some transactions, or rejected.
TxOutcomes == {"empty", "some", "rejected"}

\* A fetchTransactions invocation: its trigger and the props its closure holds.
TxFetch(trigger, props) == [id |-> txStarted + 1, trigger |-> trigger, props |-> props]

\* propIsLoading === false && !propTransactions (lines 58 and 68); an array,
\* also an empty one, is truthy.
TxToastShown(f) == f.props.isLoading = "false" /\ f.props.transactions = "undefined"

\* The toast of lines 59-63 and 69, if one is shown.
TxToastsAfter(f, outcome) ==
    IF TxToastShown(f)
    THEN Append(txToasts,
                [trigger |-> f.trigger,
                 text    |-> CASE outcome = "some"  -> "Updated N transactions"
                               [] outcome = "empty" -> "No transactions found"
                               [] OTHER             -> "Failed to fetch transaction data"])
    ELSE txToasts

\* setTransactions of lines 53 and 72.
TransactionsAfter(outcome) == IF outcome = "rejected" THEN "empty" ELSE outcome

\* displayTransactions = propTransactions || transactions is empty (line 94):
\* the empty-state Refresh button of lines 278-285 is rendered.
TxDisplayEmpty ==
    IF txProps.transactions = "undefined" THEN transactions = "empty"
    ELSE txProps.transactions = "empty"

\* fetchTransactions up to its await (lines 46-51).
StartTxFetch(trigger, props) ==
    /\ txStarted < MaxTransactionFetches
    /\ txStarted' = txStarted + 1
    /\ txIsLoading' = TRUE
    /\ txFetches' = txFetches \cup {TxFetch(trigger, props)}
    /\ UNCHANGED <<transactions, txToasts>>

\* The first render with props p, and the effect of lines 85-91 after it.
TxMount(p) ==
    /\ ~txMounted
    /\ txMounted' = TRUE
    /\ txProps' = p
    /\ txFirstProps' = p
    /\ StartTxFetch("mount", p)

\* The parent renders the component with other props.
TxParentRender(p) ==
    /\ txMounted
    /\ p # txProps
    /\ txStarted < MaxTransactionFetches
    /\ txProps' = p
    /\ UNCHANGED <<txMounted, txFirstProps, txIsLoading, transactions, txFetches,
                   txStarted, txToasts>>

\* The interval of line 89 fires: it calls the fetchTransactions of the first
\* render.
TxTimer ==
    /\ txMounted
    /\ UNCHANGED <<txMounted, txProps, txFirstProps>>
    /\ StartTxFetch("timer", txFirstProps)

\* A click on the refresh button of lines 182-187 (disabled while isLoading)
\* or on the Refresh button of the empty state (lines 278-285).
TxManualRefresh ==
    /\ txMounted
    /\ ~txIsLoading \/ TxDisplayEmpty
    /\ UNCHANGED <<txMounted, txProps, txFirstProps>>
    /\ StartTxFetch("manual", txProps)

\* The requests of invocation f settle: lines 53-81.
TxSettle(f, outcome) ==
    /\ f \in txFetches
    /\ txFetches' = txFetches \ {f}
    /\ transactions' = TransactionsAfter(outcome)
    /\ txToasts' = TxToastsAfter(f, outcome)
    /\ txIsLoading' = FALSE
    /\ UNCHANGED <<txMounted, txProps, txFirstProps, txStarted>>

txFrozen == <<tradeVars, clockVars, walletVars, apiVars>>

TransactionsNext ==
    \/ (\E p \in TxPropValues : TxMount(p)) /\ UNCHANGED txFrozen
    \/ (\E p \in TxPropValues : TxParentRender(p)) /\ UNCHANGED txFrozen
    \/ TxTimer /\ UNCHANGED txFrozen
    \/ TxManualRefresh /\ UNCHANGED txFrozen
    \/ (\E f \in txFetches : \E o \in TxOutcomes : TxSettle(f, o)) /\ UNCHANGED txFrozen

TransactionsSpec == Init /\ [][TransactionsNext]_vars

Tokens == {"t1", "t2"}

AuthorizationHeader_Never(token) == "none"

\* Lines 24-26: 'Bearer <token>' when this.token is set, no header otherwise.
AuthorizationHeader(token) == IF token # "null" THEN token ELSE "none"

\* The request a call of ApiService.request hands to fetch (lines 17-31),
\* with what was true when it was issued.
RequestSent(endpoint) ==
    [via           |-> "request",
     endpoint      |-> endpoint,
     authorization |-> AuthorizationHeader(apiToken),
     tokenSet      |-> apiToken # "null",
     loginSession  |-> loginSession,
     credential    |-> credential]

\* The request a call of ApiService.mlRequest hands to fetch (lines 60-70).
MlRequestSent(endpoint) ==
    [via           |-> "mlRequest",
     endpoint      |-> endpoint,
     authorization |-> "none",
     tokenSet      |-> apiToken # "null",
     loginSession  |-> loginSession,
     credential    |-> credential]

ApiCallAllowed == apiConstructed /\ apiCalls < MaxApiCalls

\* new ApiService() with localStorage holding stored under 'auth_token'.
ApiConstruct(stored) ==
    /\ ~apiConstructed
    /\ apiConstructed' = TRUE
    /\ storedToken' = stored
    /\ apiToken' = stored
    /\ credential' = stored
    /\ UNCHANGED <<apiInFlight, apiCalls, apiSent, loginSession>>

\* A method that only calls this.request (getUserStats, getWalletBalance...).
ApiDataCall ==
    /\ ApiCallAllowed
    /\ apiCalls' = apiCalls + 1
    /\ apiSent' = Append(apiSent, RequestSent("/data"))
    /\ UNCHANGED <<apiConstructed, apiToken, storedToken, apiInFlight, loginSession,
                   credential>>

\* A method that calls this.mlRequest (getPrediction...).
ApiMlCall ==
    /\ ApiCallAllowed
    /\ apiCalls' = apiCalls + 1
    /\ apiSent' = Append(apiSent, MlRequestSent("/predict"))
    /\ UNCHANGED <<apiConstructed, apiToken, storedToken, apiInFlight, loginSession,
                   credential>>

\* login up to its await (lines 80-87), and logout up to its await (line 104).
ApiStart(kind) ==
    /\ ApiCallAllowed
    /\ apiCalls' = apiCalls + 1
    /\ apiSent' = Append(apiSent, RequestSent(IF kind = "login" THEN "/auth/login"
                                              ELSE "/auth/logout"))
    /\ apiInFlight' = apiInFlight \cup {[id |-> apiCalls + 1, kind |-> kind]}
    /\ UNCHANGED <<apiConstructed, apiToken, storedToken, loginSession, credential>>

\* The login request c is answered with access_token tok (lines 89-91).
ApiLoginResolved(c, tok) ==
    /\ c \in apiInFlight
    /\ c.kind = "login"
    /\ apiInFlight' = apiInFlight \ {c}
    /\ apiToken' = tok
    /\ storedToken' = tok
    /\ loginSession' = tok
    /\ credential' = tok
    /\ UNCHANGED <<apiConstructed, apiCalls, apiSent>>

\* The login request c fails: request throws and login stops at line 81.
ApiLoginRejected(c) ==
    /\ c \in apiInFlight
    /\ c.kind = "login"
    /\ apiInFlight' = apiInFlight \ {c}
    /\ UNCHANGED <<apiConstructed, apiToken, storedToken, apiCalls, apiSent,
                   loginSession, credential>>

TokenAfterLogout_OnlyOnSuccess(ok) == IF ok THEN "null" ELSE apiToken

\* finally { this.token = null } (lines 105-107), whether or not the request
\* succeeded.
TokenAfterLogout(ok) == "null"

\* The logout request c is answered (ok) or fails: lines 105-108.
ApiLogoutSettled(c, ok) ==
    /\ c \in apiInFlight
    /\ c.kind = "logout"
    /\ apiInFlight' = apiInFlight \ {c}
    /\ apiToken' = TokenAfterLogout(ok)
    /\ storedToken' = "null"
    /\ loginSession' = "none"
    /\ credential' = "null"
    /\ UNCHANGED <<apiConstructed, apiCalls, apiSent>>

\* setToken(tok) (lines 428-431).
ApiSetToken(tok) ==
    /\ ApiCallAllowed
    /\ apiCalls' = apiCalls + 1
    /\ apiToken' = tok
    /\ storedToken' = tok
    /\ credential' = tok
    /\ UNCHANGED <<apiConstructed, apiInFlight, apiSent, loginSession>>

\* isAuthenticated() (lines 418-420).
isAuthenticated == apiToken # "null"

apiFrozen == <<tradeVars, clockVars, walletVars, txVars>>

ApiNext ==
    \/ (\E stored \in Tokens \cup {"null"} : ApiConstruct(stored)) /\ UNCHANGED apiFrozen
    \/ ApiDataCall /\ UNCHANGED apiFrozen
    \/ ApiMlCall /\ UNCHANGED apiFrozen
    \/ (\E kind \in {"login", "logout"} : ApiStart(kind)) /\ UNCHANGED apiFrozen
    \/ (\E c \in apiInFlight : \E tok \in Tokens : ApiLoginResolved(c, tok))
          /\ UNCHANGED apiFrozen
    \/ (\E c \in apiInFlight : ApiLoginRejected(c)) /\ UNCHANGED apiFrozen
    \/ (\E c \in apiInFlight : \E ok \in BOOLEAN : ApiLogoutSettled(c, ok))
          /\ UNCHANGED apiFrozen
    \/ (\E tok \in Tokens : ApiSetToken(tok)) /\ UNCHANGED apiFrozen

ApiSpec == Init /\ [][ApiNext]_vars

RECURSIVE NetQuantity(_, _)
NetQuantity(ts, s) ==
    IF ts = << >> THEN 0
    ELSE NetQuantity(Tail(ts), s)
           + (IF Head(ts).symbol # s THEN 0
              ELSE IF Head(ts).side = "BUY" THEN Number(Head(ts).quantity)
              ELSE 0 - Number(Head(ts).quantity))

\* C26: after every step, for every symbol the held quantity (0 without an
\* entry) is the quantity of its filled BUYs minus the quantity of its filled
\* SELLs, rejected orders counting for nothing; and a fill leaves the entry
\* and the Position object of every other symbol as they were.
C26_HoldingsAreNetFills ==
    [][/\ \A s \in tradingPairs :
              HeldQtyIn(portfolio', heap', s) = NetQuantity(filled', s)
       /\ FillStep
            => \A s \in tradingPairs \ {lastTrade'.symbol} :
                   /\ portfolio'[s] = portfolio[s]
                   /\ portfolio[s] # 0 => heap'[portfolio[s]] = heap[portfolio[s]]]_vars

\* C26 witness: two symbols are held after two fills and a third order was
\* rejected.
C26_Witness ==
    /\ Cardinality(HeldSymbols(portfolio)) = 2
    /\ Len(filled) = 2
    /\ submitted = 3
    /\ lastOrder.verdict \in Rejections
    /\ \A s \in tradingPairs : HeldQty(s) = NetQuantity(filled, s)

\* C27: a fill leaves every Position object reachable from the portfolio that
\* was current before it (the one the order was validated against) with the
\* quantity, average_price and total_value it had, for BUY and for SELL.
C27_PreviousSnapshotUntouched ==
    [][FillStep
          => \A s \in tradingPairs :
                 portfolio[s] # 0 => heap'[portfolio[s]] = heap[portfolio[s]]]_vars

\* C28: whatever the form holds when an order is filled, the Trade record has
\* the symbol, side, quantity and executed price validated at submission, the
\* cash moves by the trade value computed then, and the position of that
\* symbol moves by that quantity.
C28_FillUsesSubmittedOrder ==
    [][FillStep
          => /\ lastTrade'.symbol = lastOrder.symbol
             /\ lastTrade'.side = lastOrder.side
             /\ lastTrade'.quantity = lastOrder.quantity
             /\ lastTrade'.executed_price = lastOrder.executedPrice
             /\ balance' = (IF lastOrder.side = "BUY"
                            THEN RSub(balance, lastOrder.tradeValue)
                            ELSE RAdd(balance, lastOrder.tradeValue))
             /\ HeldQtyIn(portfolio', heap', lastOrder.symbol)
                   = HeldQty(lastOrder.symbol)
                       + (IF lastOrder.side = "BUY" THEN lastOrder.tradeQuantity
                          ELSE 0 - lastOrder.tradeQuantity)
             /\ \A s \in tradingPairs \ {lastOrder.symbol} :
                    HeldQtyIn(portfolio', heap', s) = HeldQty(s)]_vars

\* C28 witness: the last order of the session was filled while the form held
\* another symbol and the other side, both set during its processing delay
\* (the form is no longer edited once the session is over).
C28_Witness ==
    /\ submitted = MaxOrders
    /\ pending = {}
    /\ lastOrder.inv = MaxOrders
    /\ lastOrder.verdict = "OK"
    /\ lastTrade.symbol = lastOrder.symbol
    /\ lastTrade.symbol # symbol
    /\ lastTrade.side # side

\* C29: isLoadingBinance is true whenever a wallet fetch is waiting for its
\* response, so the refresh button is disabled for as long as one is.
C29_LoadingWhileInFlight == walletFetches # {} => isLoadingBinance

\* A step in which a logout call completes.
LogoutCompletes == \E c \in apiInFlight : c.kind = "logout" /\ c \notin apiInFlight'

\* C30: once the service is constructed, after every step the in-memory token
\* equals the value stored under 'auth_token' (both absent or the same
\* string) and isAuthenticated() is true exactly when it is present; after a
\* step that completes a logout, whether its request succeeded or failed, the
\* token is null and the key is removed.
C30_TokenMatchesStorage ==
    [][/\ apiConstructed => (apiToken = storedToken /\ (isAuthenticated <=> storedToken # "null"))
       /\ apiConstructed' => apiToken' = storedToken'
       /\ LogoutCompletes => (apiToken' = "null" /\ storedToken' = "null")]_vars

\* C30 witness: a logout issued with a token set has completed and nothing
\* is in flight; no token is left in memory or in storage.
C30_Witness ==
    /\ apiConstructed
    /\ apiInFlight = {}
    /\ \E i \in 1..Len(apiSent) :
          /\ apiSent[i].endpoint = "/auth/logout"
          /\ apiSent[i].authorization # "none"
          /\ apiSent[i].loginSession # "none"
    /\ apiToken = "null"
    /\ storedToken = "null"
    /\ ~isAuthenticated

====
